---- MODULE Spec2Model ----
(***************************************************************************)
(* The two WebGPU scripts of webgpu-conway as one state machine.           *)
(*                                                                         *)
(*   "main"  src/src/main.ts       the full script: clear + draw a square  *)
(*   "part"  src/unnamed/part_000  the shorter script: clear only          *)
(*                                                                         *)
(* Each script is a straight-line ES module.  A state is the value of its  *)
(* top-level bindings, the host objects they refer to, the position in the *)
(* script and the list of host calls made so far.  One action models one   *)
(* statement (one host call).  The host's answers (is there a <canvas>,    *)
(* does requestAdapter resolve to null, does getContext return null, which *)
(* canvas format is preferred) are chosen when the call is made.           *)
(***************************************************************************)
EXTENDS Integers, Sequences, FiniteSets, TLC

VARIABLES
    script,            \* which of the two scripts the page runs
    gpu,               \* navigator.gpu is present
    pc,                \* index of the next statement in Order
    error,             \* "none", or the message of the uncaught exception
    canvas,            \* const canvas
    adapter,           \* const adapter
    device,            \* const device
    context,           \* const context
    canvasFormat,      \* const canvasFormat
    contextConfig,     \* the configuration the host holds for the context
    vertexBuffer,      \* const vertexBuffer (the GPUBuffer)
    cellShaderModule,  \* const cellShaderModule
    cellPipeline,      \* const cellPipeline
    encoder,           \* const encoder (the GPUCommandEncoder)
    texture,           \* context!.getCurrentTexture()
    view,              \* .createView()
    pass1,             \* const pass1 (the GPURenderPassEncoder)
    commandBuffer,     \* const commandBuffer
    queue,             \* command buffers handed to device.queue.submit
    calls,             \* host calls made so far, in order
    console            \* values written by console.log

control   == <<script, gpu, pc, error>>
setup     == <<canvas, adapter, device, context, canvasFormat, contextConfig>>
resources == <<vertexBuffer, cellShaderModule, cellPipeline>>
recording == <<encoder, texture, view, pass1, commandBuffer, queue>>
vars      == <<control, setup, resources, recording, calls, console>>

-----------------------------------------------------------------------------
(* Literals of the scripts *)

\* The two values GPU.getPreferredCanvasFormat() can return.
CanvasFormats == {"bgra8unorm", "rgba8unorm"}

\* main.ts 52-60: the twelve floats, in tenths (-0.8 is -8).
verticies ==
    << -8, -8,   8, -8,   8, 8,
       -8, -8,   8, 8,   -8, 8 >>

\* Float32Array.BYTES_PER_ELEMENT
BytesPerFloat == 4

\* main.ts 68: verticies.byteLength
ByteLength(arr) == Len(arr) * BytesPerFloat

\* main.ts 77
arrayStride == 8

\* main.ts 80: the byte size of one "float32x2" attribute
Float32x2Size == 2 * BytesPerFloat

\* main.ts 75-84
vertexBufferLayout ==
    [arrayStride |-> arrayStride,
     attributes  |-> << [format |-> "float32x2", size |-> Float32x2Size,
                         offset |-> 0, shaderLocation |-> 0] >>]

DrawCount_Floats == Len(verticies)

\* main.ts 137: verticies.length / 2
DrawCount == Len(verticies) \div 2

-----------------------------------------------------------------------------
(* The statements of each script, in source order *)

MainOrder_DrawAfterEnd ==
    << "querySelector", "checkGpu", "requestAdapter", "checkAdapter",
       "requestDevice", "getContext", "getPreferredCanvasFormat", "configure",
       "createBuffer", "writeBuffer", "createShaderModule",
       "createRenderPipeline", "createCommandEncoder",
       "getCurrentTexture", "createView", "beginRenderPass",
       "setPipeline", "setVertexBuffer", "end", "draw", "log",
       "finish", "submit" >>

MainOrder_PipelineFirst ==
    << "querySelector", "checkGpu", "requestAdapter", "checkAdapter",
       "requestDevice", "getContext", "getPreferredCanvasFormat", "configure",
       "createBuffer", "writeBuffer", "createRenderPipeline",
       "createShaderModule", "createCommandEncoder",
       "getCurrentTexture", "createView", "beginRenderPass",
       "setPipeline", "setVertexBuffer", "draw", "log", "end",
       "finish", "submit" >>

\* src/src/main.ts
MainOrder ==
    << "querySelector", "checkGpu", "requestAdapter", "checkAdapter",
       "requestDevice", "getContext", "getPreferredCanvasFormat", "configure",
       "createBuffer", "writeBuffer", "createShaderModule",
       "createRenderPipeline", "createCommandEncoder",
       "getCurrentTexture", "createView", "beginRenderPass",
       "setPipeline", "setVertexBuffer", "draw", "log", "end",
       "finish", "submit" >>

\* src/unnamed/part_000
PartOrder ==
    << "querySelector", "checkGpu", "requestAdapter", "checkAdapter",
       "requestDevice", "getContext", "getPreferredCanvasFormat", "configure",
       "createCommandEncoder",
       "getCurrentTexture", "createView", "beginRenderPass", "end",
       "finish", "submit" >>

Order == IF script = "main" THEN MainOrder ELSE PartOrder

Running == error = "none" /\ pc <= Len(Order)
Done    == error = "none" /\ pc = Len(Order) + 1
Aborted == error # "none"

At(stmt) == Running /\ Order[pc] = stmt

\* the statement completes and control moves to the next one
Advance == pc' = pc + 1 /\ UNCHANGED <<script, gpu, error>>

\* the statement throws: module evaluation stops with the exception uncaught
Throw(msg) == error' = msg /\ UNCHANGED <<script, gpu, pc>>

Call(name) == calls' = Append(calls, name)

-----------------------------------------------------------------------------
(* Values of bindings that are not yet initialised *)

NoConfig   == [configured |-> FALSE, device |-> "undef", format |-> "undef"]
NoBuffer   == [label |-> "undef", size |-> 0, usage |-> {}, data |-> << >>]
NoModule   == [label |-> "undef", entryPoints |-> {}]
NoPipeline == [label |-> "undef", layout |-> "undef",
               vertexModule |-> "undef", vertexEntry |-> "undef",
               buffers |-> << >>,
               fragmentModule |-> "undef", fragmentEntry |-> "undef",
               targets |-> << >>]
NoEncoder  == [state |-> "undef", passes |-> << >>]
NoPass     == [state |-> "undef", view |-> "undef", clearValue |-> << >>,
               loadOp |-> "undef", storeOp |-> "undef", commands |-> << >>]
NoCommandBuffer == [state |-> "undef", passes |-> << >>]

Init ==
    /\ script \in {"main", "part"}
    /\ gpu \in BOOLEAN
    /\ pc = 1
    /\ error = "none"
    /\ canvas = "undef"
    /\ adapter = "undef"
    /\ device = "undef"
    /\ context = "undef"
    /\ canvasFormat = "undef"
    /\ contextConfig = NoConfig
    /\ vertexBuffer = NoBuffer
    /\ cellShaderModule = NoModule
    /\ cellPipeline = NoPipeline
    /\ encoder = NoEncoder
    /\ texture = "undef"
    /\ view = "undef"
    /\ pass1 = NoPass
    /\ commandBuffer = NoCommandBuffer
    /\ queue = << >>
    /\ calls = << >>
    /\ console = << >>

-----------------------------------------------------------------------------
(* Conditions and arguments the statements compute *)

GpuUnsupported_Never == FALSE

\* main.ts 6: !navigator.gpu
GpuUnsupported == ~gpu

AdapterMissing_Never == FALSE

\* main.ts 21: !adapter
AdapterMissing == adapter = "null"

ShouldConfigure_Never == FALSE

\* main.ts 33: context ? ... : null
ShouldConfigure == context # "null"

ConfigureDescriptor_FixedFormat ==
    [configured |-> TRUE, device |-> device, format |-> "rgba8unorm"]

\* main.ts 33-36: { device: device, format: canvasFormat }
ConfigureDescriptor ==
    [configured |-> TRUE, device |-> device, format |-> canvasFormat]

\* main.ts 128: context! strips null from the type and checks nothing, so
\* reading .getCurrentTexture of a null context is a TypeError.
ContextUsable == context = "context"

SubmitList_Twice == <<commandBuffer, commandBuffer>>

\* main.ts 149: [commandBuffer]
SubmitList == <<commandBuffer>>

-----------------------------------------------------------------------------
(* The statements *)

\* main.ts 3: document.querySelector('canvas') as HTMLCanvasElement
\* (the cast checks nothing: a page without a <canvas> gives null)
QuerySelector ==
    /\ At("querySelector")
    /\ \E c \in {"null", "canvas"} : canvas' = c
    /\ Call("querySelector")
    /\ Advance
    /\ UNCHANGED <<adapter, device, context, canvasFormat, contextConfig>>
    /\ UNCHANGED <<resources, recording, console>>

\* main.ts 6-8
CheckGpu ==
    /\ At("checkGpu")
    /\ Call("navigator.gpu")
    /\ IF GpuUnsupported
         THEN Throw("WebGPU is not supported!")
         ELSE Advance
    /\ UNCHANGED <<setup, resources, recording, console>>

\* main.ts 19: await navigator.gpu.requestAdapter()
RequestAdapter ==
    /\ At("requestAdapter")
    /\ IF gpu
         THEN /\ \E a \in {"null", "adapter"} : adapter' = a
              /\ Call("requestAdapter")
              /\ Advance
         ELSE /\ Throw("TypeError: navigator.gpu is undefined")
              /\ UNCHANGED <<adapter, calls>>
    /\ UNCHANGED <<canvas, device, context, canvasFormat, contextConfig>>
    /\ UNCHANGED <<resources, recording, console>>

\* main.ts 21-23
CheckAdapter ==
    /\ At("checkAdapter")
    /\ IF AdapterMissing
         THEN Throw("Failed to get adapter!")
         ELSE Advance
    /\ UNCHANGED <<setup, resources, recording, calls, console>>

\* main.ts 25: await adapter.requestDevice()
RequestDevice ==
    /\ At("requestDevice")
    /\ IF adapter = "adapter"
         THEN /\ device' = "device"
              /\ Call("requestDevice")
              /\ Advance
         ELSE /\ Throw("TypeError: adapter is null")
              /\ UNCHANGED <<device, calls>>
    /\ UNCHANGED <<canvas, adapter, context, canvasFormat, contextConfig>>
    /\ UNCHANGED <<resources, recording, console>>

\* main.ts 31: canvas.getContext("webgpu")
GetContext ==
    /\ At("getContext")
    /\ IF canvas = "canvas"
         THEN /\ \E c \in {"null", "context"} : context' = c
              /\ Call("getContext")
              /\ Advance
         ELSE /\ Throw("TypeError: canvas is null")
              /\ UNCHANGED <<context, calls>>
    /\ UNCHANGED <<canvas, adapter, device, canvasFormat, contextConfig>>
    /\ UNCHANGED <<resources, recording, console>>

\* main.ts 32: navigator.gpu.getPreferredCanvasFormat()
GetPreferredCanvasFormat ==
    /\ At("getPreferredCanvasFormat")
    /\ \E f \in CanvasFormats : canvasFormat' = f
    /\ Call("getPreferredCanvasFormat")
    /\ Advance
    /\ UNCHANGED <<canvas, adapter, device, context, contextConfig>>
    /\ UNCHANGED <<resources, recording, console>>

\* main.ts 33-36: context ? context.configure({...}) : null
Configure ==
    /\ At("configure")
    /\ IF ShouldConfigure
         THEN IF ContextUsable
                THEN /\ contextConfig' = ConfigureDescriptor
                     /\ Call("configure")
                     /\ Advance
                ELSE /\ Throw("TypeError: context is null")
                     /\ UNCHANGED <<contextConfig, calls>>
         ELSE /\ Advance
              /\ UNCHANGED <<contextConfig, calls>>
    /\ UNCHANGED <<canvas, adapter, device, context, canvasFormat>>
    /\ UNCHANGED <<resources, recording, console>>

\* main.ts 66-70: device.createBuffer({label, size, usage})
CreateBuffer ==
    /\ At("createBuffer")
    /\ vertexBuffer' =
         [label |-> "Cell Verticies",
          size  |-> ByteLength(verticies),
          usage |-> {"VERTEX", "COPY_DST"},
          data  |-> [i \in 1..Len(verticies) |-> 0]]
    /\ Call("createBuffer")
    /\ Advance
    /\ UNCHANGED <<setup, cellShaderModule, cellPipeline, recording, console>>

\* main.ts 72: device.queue.writeBuffer(vertexBuffer, 0, verticies)
WriteBuffer ==
    /\ At("writeBuffer")
    /\ IF vertexBuffer.label # "undef"
          /\ "COPY_DST" \in vertexBuffer.usage
          /\ ByteLength(verticies) <= vertexBuffer.size
         THEN /\ vertexBuffer' = [vertexBuffer EXCEPT !.data = verticies]
              /\ Call("writeBuffer")
              /\ Advance
         ELSE /\ Throw("OperationError: writeBuffer")
              /\ UNCHANGED <<vertexBuffer, calls>>
    /\ UNCHANGED <<setup, cellShaderModule, cellPipeline, recording, console>>

\* main.ts 86-103: device.createShaderModule({label, code})
CreateShaderModule ==
    /\ At("createShaderModule")
    /\ cellShaderModule' =
         [label |-> "Cell shader",
          entryPoints |-> {"vertexMain", "fragmentMain"}]
    /\ Call("createShaderModule")
    /\ Advance
    /\ UNCHANGED <<setup, vertexBuffer, cellPipeline, recording, console>>

\* main.ts 108-123: device.createRenderPipeline({...})
CreateRenderPipeline ==
    /\ At("createRenderPipeline")
    /\ cellPipeline' =
         [label          |-> "Cell pipeline",
          layout         |-> "auto",
          vertexModule   |-> cellShaderModule.label,
          vertexEntry    |-> "vertexMain",
          buffers        |-> << vertexBufferLayout >>,
          fragmentModule |-> cellShaderModule.label,
          fragmentEntry  |-> "fragmentMain",
          targets        |-> << canvasFormat >>]
    /\ Call("createRenderPipeline")
    /\ Advance
    /\ UNCHANGED <<setup, vertexBuffer, cellShaderModule, recording, console>>

-----------------------------------------------------------------------------
(* Command recording and submission *)

\* main.ts 125: device.createCommandEncoder()
CreateCommandEncoder ==
    /\ At("createCommandEncoder")
    /\ encoder' = [state |-> "open", passes |-> << >>]
    /\ Call("createCommandEncoder")
    /\ Advance
    /\ UNCHANGED <<setup, resources, console>>
    /\ UNCHANGED <<texture, view, pass1, commandBuffer, queue>>

\* main.ts 128: context!.getCurrentTexture(), the first part of the argument
\* of beginRenderPass, evaluated before beginRenderPass is entered
GetCurrentTexture ==
    /\ At("getCurrentTexture")
    /\ IF ContextUsable
         THEN /\ texture' = contextConfig.format
              /\ Call("getCurrentTexture")
              /\ Advance
         ELSE /\ Throw("TypeError: context is null")
              /\ UNCHANGED <<texture, calls>>
    /\ UNCHANGED <<setup, resources, console>>
    /\ UNCHANGED <<encoder, view, pass1, commandBuffer, queue>>

\* main.ts 128: .createView()
CreateView ==
    /\ At("createView")
    /\ view' = texture
    /\ Call("createView")
    /\ Advance
    /\ UNCHANGED <<setup, resources, console>>
    /\ UNCHANGED <<encoder, texture, pass1, commandBuffer, queue>>

\* main.ts 126-134: encoder.beginRenderPass({colorAttachments: [{...}]})
BeginRenderPass ==
    /\ At("beginRenderPass")
    /\ pass1' = [state      |-> "recording",
                 view       |-> view,
                 clearValue |-> <<8, 9, 9, 10>>,
                 loadOp     |-> "clear",
                 storeOp    |-> "store",
                 commands   |-> << >>]
    /\ encoder' = [encoder EXCEPT !.state = "locked"]
    /\ Call("beginRenderPass")
    /\ Advance
    /\ UNCHANGED <<setup, resources, console>>
    /\ UNCHANGED <<texture, view, commandBuffer, queue>>

Record(cmd) ==
    pass1' = [pass1 EXCEPT !.commands = Append(@, cmd)]

\* main.ts 135: pass1.setPipeline(cellPipeline)
SetPipeline ==
    /\ At("setPipeline")
    /\ Record([op |-> "setPipeline", target |-> cellPipeline.label, n |-> 0])
    /\ Call("setPipeline")
    /\ Advance
    /\ UNCHANGED <<setup, resources, console>>
    /\ UNCHANGED <<encoder, texture, view, commandBuffer, queue>>

\* main.ts 136: pass1.setVertexBuffer(0, vertexBuffer)
SetVertexBuffer ==
    /\ At("setVertexBuffer")
    /\ Record([op |-> "setVertexBuffer", target |-> vertexBuffer.label, n |-> 0])
    /\ Call("setVertexBuffer")
    /\ Advance
    /\ UNCHANGED <<setup, resources, console>>
    /\ UNCHANGED <<encoder, texture, view, commandBuffer, queue>>

\* main.ts 137: pass1.draw(verticies.length / 2)
Draw ==
    /\ At("draw")
    /\ Record([op |-> "draw", target |-> "", n |-> DrawCount])
    /\ Call("draw")
    /\ Advance
    /\ UNCHANGED <<setup, resources, console>>
    /\ UNCHANGED <<encoder, texture, view, commandBuffer, queue>>

\* main.ts 138: console.log(verticies.length)
Log ==
    /\ At("log")
    /\ console' = Append(console, Len(verticies))
    /\ Advance
    /\ UNCHANGED <<setup, resources, recording, calls>>

\* main.ts 142: pass1.end()
End ==
    /\ At("end")
    /\ pass1' = [pass1 EXCEPT !.state = "ended"]
    /\ encoder' = [state  |-> "open",
                   passes |-> Append(encoder.passes,
                                     [pass1 EXCEPT !.state = "ended"])]
    /\ Call("end")
    /\ Advance
    /\ UNCHANGED <<setup, resources, console>>
    /\ UNCHANGED <<texture, view, commandBuffer, queue>>

\* main.ts 145: encoder.finish()
Finish ==
    /\ At("finish")
    /\ commandBuffer' = [state |-> "ready", passes |-> encoder.passes]
    /\ encoder' = [encoder EXCEPT !.state = "finished"]
    /\ Call("finish")
    /\ Advance
    /\ UNCHANGED <<setup, resources, console>>
    /\ UNCHANGED <<texture, view, pass1, queue>>

Submit_Again ==
    /\ At("submit")
    /\ queue' = queue \o SubmitList
    /\ commandBuffer' = [commandBuffer EXCEPT !.state = "submitted"]
    /\ Call("submit")
    /\ pc' = IF queue = << >> THEN pc ELSE pc + 1
    /\ UNCHANGED <<script, gpu, error>>
    /\ UNCHANGED <<setup, resources, console>>
    /\ UNCHANGED <<encoder, texture, view, pass1>>

\* main.ts 149: device.queue.submit([commandBuffer])
Submit ==
    /\ At("submit")
    /\ queue' = queue \o SubmitList
    /\ commandBuffer' = [commandBuffer EXCEPT !.state = "submitted"]
    /\ Call("submit")
    /\ Advance
    /\ UNCHANGED <<setup, resources, console>>
    /\ UNCHANGED <<encoder, texture, view, pass1>>

Next ==
    \/ QuerySelector
    \/ CheckGpu
    \/ RequestAdapter
    \/ CheckAdapter
    \/ RequestDevice
    \/ GetContext
    \/ GetPreferredCanvasFormat
    \/ Configure
    \/ CreateBuffer
    \/ WriteBuffer
    \/ CreateShaderModule
    \/ CreateRenderPipeline
    \/ CreateCommandEncoder
    \/ GetCurrentTexture
    \/ CreateView
    \/ BeginRenderPass
    \/ SetPipeline
    \/ SetVertexBuffer
    \/ Draw
    \/ Log
    \/ End
    \/ Finish
    \/ Submit

Spec == Init /\ [][Next]_vars

\* Module evaluation is run to completion by the host: a statement that can
\* run does run.
FairSpec == Spec /\ WF_vars(Next)

-----------------------------------------------------------------------------
(* Operators on the list of host calls *)

\* how many times the call was made
Count(seq, c) == Cardinality({i \in 1..Len(seq) : seq[i] = c})

\* the calls of a given set, in the order they were made
Project(seq, S) == SelectSeq(seq, LAMBDA c : c \in S)

Made(c) == \E i \in 1..Len(calls) : calls[i] = c

\* position of a call in a list (0 when absent)
Rank(list, c) ==
    IF \E i \in 1..Len(list) : list[i] = c
      THEN CHOOSE i \in 1..Len(list) : list[i] = c
      ELSE 0

\* the calls of s are calls of list, each made at most once, in list's order
InOrder(s, list) ==
    \A i, j \in 1..Len(s) :
        i < j => 0 < Rank(list, s[i]) /\ Rank(list, s[i]) < Rank(list, s[j])

Range(seq) == {seq[i] : i \in 1..Len(seq)}

Draws(cmds) == Project(cmds, {c \in Range(cmds) : c.op = "draw"})

Configured ==
    /\ contextConfig.configured
    /\ contextConfig.device = device
    /\ contextConfig.format = canvasFormat
    /\ device = "device"
    /\ canvasFormat \in CanvasFormats

NoGpuObject ==
    /\ vertexBuffer = NoBuffer
    /\ cellShaderModule = NoModule
    /\ cellPipeline = NoPipeline
    /\ encoder = NoEncoder
    /\ pass1 = NoPass
    /\ commandBuffer = NoCommandBuffer

-----------------------------------------------------------------------------
(* C1 *)

\* the calls that make up the nine steps, in the order the claim gives
NineSteps ==
    << "navigator.gpu", "requestAdapter", "requestDevice", "configure",
       "createBuffer", "writeBuffer", "createShaderModule",
       "createRenderPipeline",
       "createCommandEncoder", "beginRenderPass", "finish", "submit" >>

\* the same without steps 5, 6 and 7
SixSteps ==
    << "navigator.gpu", "requestAdapter", "requestDevice", "configure",
       "createCommandEncoder", "beginRenderPass", "finish", "submit" >>

StepsMade == Project(calls, Range(NineSteps))

\* device before context configuration, shader module before pipeline (which
\* references that module and the vertex layout), pipeline before any
\* render-pass command
ObjectsBeforeUse ==
    /\ contextConfig.configured =>
         device = "device" /\ contextConfig.device = "device"
    /\ cellPipeline # NoPipeline =>
         /\ cellShaderModule # NoModule
         /\ cellPipeline.vertexModule = cellShaderModule.label
         /\ cellPipeline.fragmentModule = cellShaderModule.label
         /\ cellPipeline.buffers = << vertexBufferLayout >>
    /\ pass1.commands # << >> => cellPipeline # NoPipeline

\* C1 as stated: every run that does not abort performs the nine steps, each
\* before the next, with the device, the shader module and the pipeline
\* created before they are used.
C1_Original ==
    /\ InOrder(StepsMade, NineSteps)
    /\ Done => StepsMade = NineSteps
    /\ ObjectsBeforeUse

\* C1 (amended): every run of src/main.ts that does not abort performs the
\* nine steps, each before the next; every run of the shorter script that
\* does not abort performs steps 1-4, 8 and 9 in that order and never
\* creates a vertex buffer, shader module or pipeline.  In both, the device
\* exists before the context is configured, the shader module before the
\* pipeline, and the pipeline before any render-pass command.
C1_Amended ==
    /\ script = "main" =>
         /\ InOrder(StepsMade, NineSteps)
         /\ Done => StepsMade = NineSteps
    /\ script = "part" =>
         /\ InOrder(StepsMade, SixSteps)
         /\ Done => StepsMade = SixSteps
         /\ resources = <<NoBuffer, NoModule, NoPipeline>>
    /\ ObjectsBeforeUse

C1_Witness ==
    /\ script = "main"
    /\ Done
    /\ StepsMade = NineSteps
    /\ cellPipeline.vertexModule = "Cell shader"

-----------------------------------------------------------------------------
(* C2 *)

\* C2: when navigator.gpu is absent the run aborts at the capability check
\* with 'WebGPU is not supported!' and nothing after the check happens: no
\* adapter or device request, no configure, no GPU object, nothing submitted.
C2_NoGpuAborts ==
    ~gpu =>
      /\ ~Done
      /\ Aborted => error = "WebGPU is not supported!"
      /\ Made("navigator.gpu") => Aborted
      /\ Range(calls) \subseteq {"querySelector", "navigator.gpu"}
      /\ adapter = "undef" /\ device = "undef"
      /\ context = "undef" /\ contextConfig = NoConfig
      /\ NoGpuObject
      /\ queue = << >>

C2_Witness ==
    /\ ~gpu
    /\ error = "WebGPU is not supported!"
    /\ Made("navigator.gpu")

-----------------------------------------------------------------------------
(* C3 *)

\* C3: when navigator.gpu is present and requestAdapter resolves to null the
\* run aborts at the adapter check with 'Failed to get adapter!' after
\* exactly one adapter request; requestDevice is never called, the context is
\* not configured, no GPU object is created and nothing is submitted.
C3_NoAdapterAborts ==
    adapter = "null" =>
      /\ gpu
      /\ ~Done
      /\ Aborted => error = "Failed to get adapter!"
      /\ Running => Order[pc] = "checkAdapter"
      /\ Count(calls, "requestAdapter") = 1
      /\ ~Made("requestDevice")
      /\ Range(calls) \subseteq
           {"querySelector", "navigator.gpu", "requestAdapter"}
      /\ device = "undef"
      /\ context = "undef" /\ contextConfig = NoConfig
      /\ NoGpuObject
      /\ queue = << >>

C3_Witness ==
    /\ adapter = "null"
    /\ error = "Failed to get adapter!"
    /\ Count(calls, "requestAdapter") = 1

-----------------------------------------------------------------------------
(* C4 *)

\* one command buffer, handed over by one submit call, holding one render
\* pass that clears and stores its colour attachment and issues `draws` draws
OneClearPass(draws) ==
    /\ Len(queue) = 1
    /\ Count(calls, "submit") = 1
    /\ Len(queue[1].passes) = 1
    /\ queue[1].passes[1].loadOp = "clear"
    /\ queue[1].passes[1].storeOp = "store"
    /\ Len(Draws(queue[1].passes[1].commands)) = draws

\* C4 as stated: every run that reaches submission submits exactly one
\* command buffer, exactly once, holding exactly one render pass, which
\* clears and stores the colour attachment and issues exactly one draw call.
C4_Original ==
    Made("submit") => OneClearPass(1)

\* C4 (amended): every run that reaches submission submits exactly one
\* command buffer, exactly once, holding exactly one render pass that clears
\* and stores the colour attachment; the pass issues exactly one draw call
\* in src/main.ts and no draw call in the shorter script.
C4_Amended ==
    Made("submit") => OneClearPass(IF script = "main" THEN 1 ELSE 0)

C4_Witness ==
    /\ script = "main"
    /\ Made("submit")
    /\ Len(queue) = 1
    /\ Len(Draws(queue[1].passes[1].commands)) = 1

-----------------------------------------------------------------------------
(* C5 *)

HostGaveDevice == gpu /\ adapter = "adapter" /\ device = "device"

\* C5 as stated: a run in which navigator.gpu is present and requestAdapter
\* and requestDevice both return an object never stops early, whatever
\* getContext returns.
C5_Original ==
    HostGaveDevice /\ Made("getContext") => error = "none"

\* C5 (amended): the only checks the scripts make are the two null checks.
\* A run in which navigator.gpu is present, requestAdapter and requestDevice
\* return an object and getContext returns a context never stops early: it
\* configures the context and eventually submits the command buffer.  When
\* getContext returns null the configure call is skipped and the run stops
\* early with an uncaught TypeError at context!.getCurrentTexture(), nothing
\* being submitted; when the page has no canvas it stops early with an
\* uncaught TypeError at canvas.getContext.
C5_Amended ==
    /\ [](HostGaveDevice /\ context = "context" => error = "none")
    /\ [](HostGaveDevice /\ context = "context" /\ Done =>
            Configured /\ Made("configure") /\ Len(queue) = 1)
    /\ (HostGaveDevice /\ context = "context") ~> (Done /\ Made("submit"))
    /\ [](HostGaveDevice /\ context = "null" =>
            /\ ~Made("configure") /\ contextConfig = NoConfig
            /\ ~Done /\ queue = << >>
            /\ Aborted => error = "TypeError: context is null"
            /\ Aborted => Order[pc] = "getCurrentTexture")
    /\ (HostGaveDevice /\ context = "null") ~> Aborted
    /\ [](HostGaveDevice /\ canvas = "null" /\ Aborted =>
            error = "TypeError: canvas is null" /\ Order[pc] = "getContext")
    /\ [](Aborted =>
            error \in {"WebGPU is not supported!", "Failed to get adapter!",
                       "TypeError: canvas is null",
                       "TypeError: context is null"})

C5_Witness ==
    /\ HostGaveDevice
    /\ context = "null"
    /\ error = "TypeError: context is null"
    /\ Made("createCommandEncoder")

-----------------------------------------------------------------------------
(* C6 *)

Terminated == Done \/ Aborted

HostCalls ==
    {"requestAdapter", "requestDevice", "configure", "createBuffer",
     "writeBuffer", "createShaderModule", "createRenderPipeline",
     "createCommandEncoder", "beginRenderPass", "draw", "end", "finish",
     "submit"}

\* C6: every run terminates; each host call happens at most once in a run;
\* after submit, or after an abort, the program takes no further step.
C6_OneShot ==
    /\ <>Terminated
    /\ [](\A c \in HostCalls : Count(calls, c) <= 1)
    /\ [](Made("submit") => Done)
    /\ [][~Terminated]_vars

C6_Witness ==
    /\ Done
    /\ \A c \in HostCalls : Count(calls, c) = 1

-----------------------------------------------------------------------------
(* C7 *)

EncoderProtocol ==
    << "createCommandEncoder", "beginRenderPass", "setPipeline",
       "setVertexBuffer", "draw", "end", "finish", "submit" >>

PassCommands == {"setPipeline", "setVertexBuffer", "draw"}

RecordingCalls == Project(calls, Range(EncoderProtocol))

-----------------------------------------------------------------------------
(* C8 *)

\* C8: a render pass is begun, and a command buffer submitted, only on a
\* context configured with the device and the preferred canvas format; when
\* getContext returns null, configure is skipped and the run fails at
\* context!.getCurrentTexture() before beginRenderPass is entered.
C8_PassOnConfiguredContext ==
    /\ pass1 # NoPass => Configured /\ pass1.view = contextConfig.format
    /\ Made("beginRenderPass") => Configured /\ context = "context"
    /\ queue # << >> => Configured
    /\ context = "null" =>
         /\ ~Made("configure") /\ ~contextConfig.configured
         /\ ~Made("getCurrentTexture") /\ ~Made("beginRenderPass")
         /\ pass1 = NoPass /\ queue = << >>
         /\ Running => pc <= Rank(Order, "getCurrentTexture")
         /\ ~Done

C8_Witness ==
    /\ pass1.state = "recording"
    /\ Configured
    /\ contextConfig.format = "bgra8unorm"

-----------------------------------------------------------------------------
(* C9 *)

DrawsRecorded == Draws(pass1.commands)

\* C9: the draw call never reads past the vertex buffer: its vertex count is
\* the number of floats divided by 2 (6), the buffer's size is the byte
\* length of the vertex array (48), vertex count times arrayStride equals
\* that size, and the float32x2 attribute at offset 0 fits within one stride.
C9_DrawWithinBuffer ==
    \A i \in 1..Len(DrawsRecorded) :
        LET count  == DrawsRecorded[i].n
            layout == cellPipeline.buffers[1]
            attr   == layout.attributes[1]
        IN  /\ Len(verticies) = 12
            /\ count * 2 = Len(verticies)
            /\ count = 6
            /\ vertexBuffer.size = 48
            /\ vertexBuffer.size = Len(vertexBuffer.data) * BytesPerFloat
            /\ vertexBuffer.data = verticies
            /\ count * layout.arrayStride = vertexBuffer.size
            /\ Len(layout.attributes) = 1
            /\ attr.format = "float32x2" /\ attr.offset = 0 /\ attr.size = 8
            /\ attr.offset + attr.size <= layout.arrayStride

C9_Witness ==
    /\ Len(DrawsRecorded) = 1
    /\ DrawsRecorded[1].n = 6
    /\ vertexBuffer.size = 48

====
